---- MODULE Spec2Model ----
(***************************************************************************)
(* Model of the metrics-aggregation endpoints of memecoin-radar            *)
(* (src/app.py): top_coins, top_gainers / top_losers (get_top_movers),     *)
(* traded_volume and market_sentiment, reading the "prices" collection.    *)
(*                                                                         *)
(* Numbers.  Python floats are modelled as exact fixed-point integers in   *)
(* hundredths (150.00 is 15000); a percentage is kept as an exact fraction *)
(* until round(x, 2) turns it into hundredths.  Floating-point rounding    *)
(* error of sums and quotients is outside the model.                       *)
(* Time.  A timestamp is a number of ticks, TicksPerDay ticks to the       *)
(* calendar day; tick 0 of a day is midnight UTC.                          *)
(* Specifications.  Spec explores stores of up to NumCoins coins;          *)
(* SpecDetail runs the same endpoints over small stores with raw values,   *)
(* old and future-dated observations; SpecTwice follows successive         *)
(* requests with the clock moving and the caller keeping the previous      *)
(* outcome.                                                                *)
(* The batch scripts of src/etl follow the endpoints: SpecFetch is the      *)
(* retry loop of the fetch functions, SpecIngest the writes of the three   *)
(* price scripts interleaved with market_sentiment taken query by query,   *)
(* SpecFinder the successive runs of find_new_coins.                       *)
(***************************************************************************)
EXTENDS Integers, Sequences, FiniteSets, TLC

\* ------------------------------------------------------------------ bounds
TicksPerDay == 2      \* resolution of a timestamp inside one day
Today == 40           \* calendar day "D" of the requests
MaxTicks == 1         \* latest time of day (in ticks) of a request
NumCoins == 11        \* most coins a store holds
MaxTail == 1          \* coins of a store whose history is chosen freely
PermCoins == 3        \* up to this many groups, every $group order is tried
MaxFinderRuns == 3    \* most runs of find_new_coins in one behaviour

\* ------------------------------------------------------- program constants
TopCoinsN == 10
TopMoversN == 10
MoversWindowDays == 7
SentimentWindowDays == 7
NeutralIndicator == 50
VolumeWindowDays == 30
StatusOK == 200
StatusNotFound == 404
StatusServerError == 500

\* --------------------------------------------------------- stored values
\* A stored field is a number, a text, or null (also what $first yields for
\* a field the document does not have).
Num(n) == [t |-> "num", n |-> n, s |-> <<>>]
Str(s) == [t |-> "str", n |-> 0, s |-> s]
Null == [t |-> "null", n |-> 0, s |-> <<>>]

Digits == {"0", "1", "2", "3", "4", "5", "6", "7", "8", "9"}

DigitVal(c) ==
  CASE c = "0" -> 0 [] c = "1" -> 1 [] c = "2" -> 2 [] c = "3" -> 3
    [] c = "4" -> 4 [] c = "5" -> 5 [] c = "6" -> 6 [] c = "7" -> 7
    [] c = "8" -> 8 [] c = "9" -> 9

IsKeptChar(c) == c \in Digits \cup {".", "-"}

\* re.sub(r'[^\d\.\-]', '', value) for a text; any other value unchanged
clean_numeric_string(value) ==
  IF value.t = "str" THEN Str(SelectSeq(value.s, IsKeptChar)) ELSE value

RECURSIVE IntOfDigits(_)
IntOfDigits(ds) ==
  IF Len(ds) = 0 THEN 0
  ELSE 10 * IntOfDigits(SubSeq(ds, 1, Len(ds) - 1)) + DigitVal(ds[Len(ds)])

RECURSIVE IndexOf(_, _, _)
\* first position >= i of character c in s, 0 when there is none
IndexOf(s, c, i) ==
  IF i > Len(s) THEN 0 ELSE IF s[i] = c THEN i ELSE IndexOf(s, c, i + 1)

\* float(text) on a text over digits, '.' and '-': [ok, v], v in hundredths.
\* Accepted: an optional leading '-', then digits with at most one '.',
\* at least one digit in all.  Fraction digits past the second are dropped
\* (the fixed-point resolution of the model).
ParseFloat(s) ==
  LET neg == Len(s) > 0 /\ s[1] = "-"
      body == IF neg THEN Tail(s) ELSE s
      dot == IndexOf(body, ".", 1)
      ip == IF dot = 0 THEN body ELSE SubSeq(body, 1, dot - 1)
      fp == IF dot = 0 THEN <<>> ELSE SubSeq(body, dot + 1, Len(body))
      wellformed == /\ \A i \in 1..Len(ip) : ip[i] \in Digits
                    /\ \A i \in 1..Len(fp) : fp[i] \in Digits
                    /\ Len(ip) + Len(fp) > 0
      fp2 == SubSeq(fp \o <<"0", "0">>, 1, 2)
      mag == 100 * IntOfDigits(ip) + IntOfDigits(fp2)
  IN IF wellformed THEN [ok |-> TRUE, v |-> IF neg THEN 0 - mag ELSE mag]
     ELSE [ok |-> FALSE, v |-> 0]

\* float(value): a number converts, a text is parsed (ValueError when
\* malformed), None raises TypeError
ToFloat(value) ==
  CASE value.t = "num" -> [ok |-> TRUE, v |-> value.n]
    [] value.t = "str" -> ParseFloat(value.s)
    [] OTHER -> [ok |-> FALSE, v |-> 0]

\* mutant of NormalizeOrZero: the text goes to float() as stored
NormalizeOrZero_NoCleaning(value) ==
  LET r == ToFloat(value)
  IN IF r.ok THEN r.v ELSE 0

\* try: float(clean_numeric_string(v)) except (ValueError, TypeError): 0.0
NormalizeOrZero(value) ==
  LET r == ToFloat(clean_numeric_string(value))
  IN IF r.ok THEN r.v ELSE 0

\* ------------------------------------------------------------- the store
\* A document of the "prices" collection.
Doc(c, date, price, cap, vol) ==
  [coin_id |-> c, date |-> date, price |-> price, market_cap |-> cap,
   total_volume |-> vol]

Midnight(day) == day * TicksPerDay
DayOf(date) == date \div TicksPerDay

\* Histories a coin can have, by name.  Amounts are in hundredths.
\*   "up"    100 -> 150, cap 1000 -> 1500, six days apart (coin A of the
\*           end-to-end scenario)
\*   "down"  50 -> 40, cap 500 -> 400, six days apart (coin B)
\*   "text"  "$3" -> "4.00", cap "1,200.50", seven days apart, as text
\*   "neg"   80 -> 60 seven days apart, latest cap the text "-400"
\*   "zero"  unparseable first price, then 5, caps null and "--5"
\*   "day"   two observations on the same calendar day
\*   "ramp"  3.00 -> 3.00 + k/100 four days apart, then 9.99 later on the
\*           last day; k and the cap vary with the coin, with repeats
Profiles == {"up", "down", "text", "neg", "zero", "day", "ramp"}

RampStep(c) == (3 * c) % 5
RampCap(c) == 1000 * (1 + ((2 * c) % 3))

History(c, p) ==
  CASE p = "up" ->
         {Doc(c, Midnight(Today - 6), Num(10000), Num(100000), Num(100)),
          Doc(c, Midnight(Today), Num(15000), Num(150000), Num(200))}
    [] p = "down" ->
         {Doc(c, Midnight(Today - 6), Num(5000), Num(50000), Num(100)),
          Doc(c, Midnight(Today), Num(4000), Num(40000), Num(0))}
    [] p = "text" ->
         {Doc(c, Midnight(Today - 7), Str(<<"$", "3">>), Num(90000), Num(100)),
          Doc(c, Midnight(Today), Str(<<"4", ".", "0", "0">>),
              Str(<<"1", ",", "2", "0", "0", ".", "5", "0">>), Num(300))}
    [] p = "neg" ->
         {Doc(c, Midnight(Today - 7), Num(8000), Num(30000), Num(100)),
          Doc(c, Midnight(Today), Num(6000), Str(<<"-", "4", "0", "0">>), Num(100))}
    [] p = "zero" ->
         {Doc(c, Midnight(Today - 3), Str(<<"n", "/", "a">>), Null, Num(100)),
          Doc(c, Midnight(Today - 2), Num(500), Str(<<"-", "-", "5">>), Num(100))}
    [] p = "day" ->
         {Doc(c, Midnight(Today - 1), Num(2000), Num(2000), Num(100)),
          Doc(c, Midnight(Today - 1) + (TicksPerDay - 1), Num(3000), Num(3000), Num(100))}
    [] p = "ramp" ->
         {Doc(c, Midnight(Today - 6), Num(300), Num(500), Num(100)),
          Doc(c, Midnight(Today - 2), Num(300 + RampStep(c)), Num(500), Num(100)),
          Doc(c, Midnight(Today - 2) + (TicksPerDay - 1), Num(999), Num(RampCap(c)),
              Num(100))}

\* The stores explored: coins 1..n share one history, up to MaxTail further
\* coins have any history; NumCoins coins at most.
TailSeqs == UNION {[1..k -> Profiles] : k \in 0..MaxTail}

StoreOf(base, n, tail) ==
  UNION ({History(c, base) : c \in 1..n}
         \cup {History(n + i, tail[i]) : i \in 1..Len(tail)})

Stores ==
  UNION {{StoreOf(base, n, tail) :
            base \in Profiles,
            tail \in {t \in TailSeqs : n + Len(t) <= NumCoins}} :
         n \in 0..NumCoins}

NowChoices == {Midnight(Today) + k : k \in 0..MaxTicks}

\* Stores for the claims about single values, windows and dates: at most two
\* coins, with these further histories.
\*   "raw1".."raw9"  price and cap 1.00 seven days ago, then the same raw
\*                   value in both fields today
\*   "vol3"    volumes 100, 0, 200 on three consecutive days ending today
\*   "old"     volumes 1, 2, 4, 8 (hundredths) 33 and 30 days ago, in the
\*             second half of day D-2 and in the second half of today
\*   "future"  an observation today and one dated tomorrow
\*   "unborn"  one observation, dated tomorrow
\*   "edge"    two observations seven days ago, at midnight and later that
\*             day, and one today
RawValue(p) ==
  CASE p = "raw1" -> Num(4250)
    [] p = "raw2" -> Str(<<"1", ",", "2", "3", "4", ".", "5", "6">>)
    [] p = "raw3" -> Str(<<>>)
    [] p = "raw4" -> Str(<<"1", ".", "2", ".", "3">>)
    [] p = "raw5" -> Str(<<"-", "-", "5">>)
    [] p = "raw6" -> Null
    [] p = "raw7" -> Num(100)
    [] p = "raw8" -> Str(<<"$", "0", ".", "5">>)
    [] p = "raw9" -> Str(<<"a", "b", "c">>)

RawProfiles == {"raw1", "raw2", "raw3", "raw4", "raw5", "raw6", "raw7", "raw8", "raw9"}

DetailProfiles ==
  RawProfiles \cup {"vol3", "old", "future", "unborn", "edge", "up", "text", "neg",
                    "day", "ramp"}

DetailHistory(c, p) ==
  CASE p \in RawProfiles ->
         {Doc(c, Midnight(Today - 7), Num(100), Num(100), Num(100)),
          Doc(c, Midnight(Today), RawValue(p), RawValue(p), Num(100))}
    [] p = "vol3" ->
         {Doc(c, Midnight(Today - 2), Num(200), Num(3000), Num(10000)),
          Doc(c, Midnight(Today - 1), Num(200), Num(3000), Num(0)),
          Doc(c, Midnight(Today), Num(200), Num(3000), Num(20000))}
    [] p = "old" ->
         {Doc(c, Midnight(Today - 33), Num(100), Num(100), Num(1)),
          Doc(c, Midnight(Today - 30), Num(200), Num(200), Num(2)),
          Doc(c, Midnight(Today - 2) + (TicksPerDay - 1), Num(300), Num(300), Num(4)),
          Doc(c, Midnight(Today) + (TicksPerDay - 1), Num(400), Num(400), Num(8))}
    [] p = "future" ->
         {Doc(c, Midnight(Today), Num(100), Num(1000), Num(100)),
          Doc(c, Midnight(Today + 1), Num(900), Num(9000), Num(100))}
    [] p = "unborn" ->
         {Doc(c, Midnight(Today + 1), Num(700), Num(7000), Num(100))}
    [] p = "edge" ->
         {Doc(c, Midnight(Today - 7), Num(100), Num(100), Num(100)),
          Doc(c, Midnight(Today - 7) + (TicksPerDay - 1), Num(400), Num(100), Num(100)),
          Doc(c, Midnight(Today), Num(200), Num(100), Num(100))}
    [] OTHER -> History(c, p)

\* One coin more than a ranking returns, each 10000.00 yesterday and a
\* different number of cents above it today: changes that round alike.
FineHistory(c) ==
  {Doc(c, Midnight(Today - 1), Num(1000000), Num(100), Num(100)),
   Doc(c, Midnight(Today), Num(1000000 + c), Num(100), Num(100))}

FineStore == UNION {FineHistory(c) : c \in 1..(TopMoversN + 1)}

\* the coin that may stand next to the one under study
Companions == {"text", "vol3"}

DetailStores ==
  {{}, FineStore}
       \cup {DetailHistory(1, p) : p \in DetailProfiles}
       \cup {DetailHistory(1, p) \cup DetailHistory(2, q) :
               p \in DetailProfiles, q \in Companions}

\* ------------------------------------------------------------- the state
VARIABLES
  store,   \* documents of the prices collection
  now,     \* datetime.utcnow() of the requests
  call,    \* the request being served: operation, arguments, backend state
           \* and the result of its store query
  resp,    \* its outcome: HTTP status and body
  accum,   \* market_sentiment's accumulators when its loop has ended:
           \* <<advancing_weighted, declining_weighted, total_market_cap>>
  client,  \* the MongoClient of the request: whether get_mongo_client
           \* returned one, and how many times close() was called on it
  kept,    \* the exchange before this one, as the caller kept it
  fetch,   \* one call of an ingestion script's fetch function: its locals,
           \* the requests it issued and the waits it slept
  runs,    \* the ingestion runs under way, each at one coin of its loop
  pending, \* market_sentiment between its two queries: the rows of the first
  finder   \* find_new_coins: the cache file and the coins whose details
           \* each run fetched

\* the state of the batch scripts, which no endpoint touches
batch == <<fetch, runs, pending, finder>>

vars == <<store, now, call, resp, accum, client, kept, fetch, runs, pending, finder>>

NoCall == [op |-> "none", args |-> <<>>, backend |-> "ok", rows |-> <<>>]
NoResp == [status |-> 0, body |-> <<>>]
NoAcc == <<0, 0, 0>>
NoClient == [acquired |-> 0, closed |-> 0]
NoKept == [call |-> NoCall, resp |-> NoResp, now |-> 0]
NoFetch ==
  [pc |-> "idle", fn |-> "none", retries |-> 0, response |-> <<>>,
   requests |-> <<>>, waits |-> <<>>, result |-> "none"]
NoRuns == <<>>
NoPending == <<>>
NoFinder ==
  [pc |-> "idle", run |-> 0, listed |-> {}, client |-> FALSE, cache |-> {},
   todo |-> <<>>, examined |-> {}, memecoins |-> {}]

\* no batch script is running
NoBatch ==
  /\ fetch = NoFetch
  /\ runs = NoRuns
  /\ pending = NoPending
  /\ finder = NoFinder

Init ==
  /\ store \in Stores
  /\ now \in NowChoices
  /\ call = NoCall
  /\ resp = NoResp
  /\ accum = NoAcc
  /\ client = NoClient
  /\ kept = NoKept
  /\ NoBatch

\* An exception raised inside the handler's try block, the HTTPException of
\* the 404 branch included, is caught by `except Exception` and re-raised as
\* HTTPException(status_code=500).
ExceptException(raisedStatus) == StatusServerError

\* The client (dashboard.py, fetch_data) calls requests.get and blocks until
\* the response arrives: one request is outstanding at a time.
Idle == call = NoCall

Raise(status) == [status |-> ExceptException(status), body |-> <<>>]
Return(body) == [status |-> StatusOK, body |-> body]

\* get_mongo_client() is called before the try block; when it raises (utils.py
\* logs and re-raises) the handler has no client, nothing of it runs and the
\* framework answers the unhandled exception with status 500.
Unhandled == [status |-> StatusServerError, body |-> <<>>]

\* mutant of Finally: close() as the last statement of the try block
Finally_OnSuccessOnly(outcome) == IF outcome.status = StatusOK THEN 1 ELSE 0

\* `finally: client.close()`: the calls of close() on the way out of the try
\* block, whatever the outcome
Finally(outcome) == 1

\* The client when the handler is left.
ClientOf(c, outcome) ==
  IF c.backend = "unreachable" THEN NoClient
  ELSE [acquired |-> 1, closed |-> Finally(outcome)]

\* ------------------------------------------------------- aggregate stages
CoinIds(docs) == {d.coin_id : d \in docs}

\* {"$sort": {"date": -1}} then $first inside a coin_id group: a document of
\* the coin with the greatest date (any of them when several share it)
LatestOf(docs, c) ==
  {d \in docs : d.coin_id = c /\ \A e \in docs : e.coin_id = c => e.date <= d.date}

RECURSIVE AscSeq(_)
\* the members of a finite set of integers in ascending order
AscSeq(S) ==
  IF S = {} THEN <<>>
  ELSE LET m == CHOOSE x \in S : \A y \in S : x <= y
       IN <<m>> \o AscSeq(S \ {m})

Reverse(s) == [i \in 1..Len(s) |-> s[Len(s) + 1 - i]]

\* The order in which $group emits its groups is unspecified: every order for
\* up to PermCoins groups, ascending and descending by key beyond that.
GroupOrders(S) ==
  LET asc == AscSeq(S)
      n == Cardinality(S)
  IN IF n <= PermCoins
     THEN {[i \in 1..n |-> asc[p[i]]] :
             p \in {q \in [1..n -> 1..n] : \A i, j \in 1..n : q[i] = q[j] => i = j}}
     ELSE {asc, Reverse(asc)}

\* ------------------------------------------------------------- top_coins
\* One row of the top_coins pipeline's $group stage.
SnapshotRows(docs, c) ==
  {[symbol |-> d.coin_id, market_cap |-> d.market_cap, last_price |-> d.price] :
     d \in LatestOf(docs, c)}

RECURSIVE RowSeqs(_, _)
\* the results the pipeline can return with its groups in the given order
RowSeqs(docs, order) ==
  IF order = <<>> THEN {<<>>}
  ELSE {<<r>> \o rest : r \in SnapshotRows(docs, Head(order)),
                        rest \in RowSeqs(docs, Tail(order))}

\* list(collection.aggregate(pipeline)) of top_coins: no $match stage
TopCoinsAggregate(docs) ==
  UNION {RowSeqs(docs, order) : order \in GroupOrders(CoinIds(docs))}

\* the "Process each coin" loop
NormalizeCoin(coin) ==
  [symbol |-> coin.symbol,
   market_cap |-> NormalizeOrZero(coin.market_cap),
   last_price |-> NormalizeOrZero(coin.last_price)]

NormalizeCoins(coins) == [i \in 1..Len(coins) |-> NormalizeCoin(coins[i])]

RECURSIVE SumMarketCap(_)
\* sum(coin['market_cap'] for coin in coins)
SumMarketCap(coins) ==
  IF coins = <<>> THEN 0
  ELSE coins[1].market_cap + SumMarketCap(Tail(coins))

RECURSIVE InsertCoinDesc(_, _)
\* x goes behind every coin whose market cap is not smaller: equal keys keep
\* their input order, as sorted(..., reverse=True) keeps them
InsertCoinDesc(sorted, x) ==
  IF sorted = <<>> THEN <<x>>
  ELSE IF sorted[1].market_cap >= x.market_cap
       THEN <<sorted[1]>> \o InsertCoinDesc(Tail(sorted), x)
       ELSE <<x>> \o sorted

RECURSIVE InsertCoinAsc(_, _)
InsertCoinAsc(sorted, x) ==
  IF sorted = <<>> THEN <<x>>
  ELSE IF sorted[1].market_cap <= x.market_cap
       THEN <<sorted[1]>> \o InsertCoinAsc(Tail(sorted), x)
       ELSE <<x>> \o sorted

RECURSIVE SortCoinsAsc(_)
SortCoinsAsc(coins) ==
  IF coins = <<>> THEN <<>>
  ELSE InsertCoinAsc(SortCoinsAsc(SubSeq(coins, 1, Len(coins) - 1)),
                     coins[Len(coins)])

\* mutant of SortCoinsDesc: an ascending sort read backwards, which turns
\* the order of equal keys around
SortCoinsDesc_ReversedAsc(coins) == Reverse(SortCoinsAsc(coins))

\* mutant of SortCoinsDesc: the coins left in the order the query gave them
SortCoinsDesc_Unsorted(coins) == coins

RECURSIVE SortCoinsDesc(_)
\* sorted(coins, key=lambda x: x['market_cap'], reverse=True)
SortCoinsDesc(coins) ==
  IF coins = <<>> THEN <<>>
  ELSE InsertCoinDesc(SortCoinsDesc(SubSeq(coins, 1, Len(coins) - 1)),
                      coins[Len(coins)])

Take(s, n) == SubSeq(s, 1, IF Len(s) < n THEN Len(s) ELSE n)

Top10Coins(coins) == Take(SortCoinsDesc(coins), TopCoinsN)

\* mutants of TotalMarketCap: the sum taken after the truncation; the sum
\* that skips the first coin
TotalMarketCap_TopOnly(coins) == SumMarketCap(Top10Coins(coins))
TotalMarketCap_SkipFirst(coins) == SumMarketCap(Tail(coins))

TotalMarketCap(coins) == SumMarketCap(coins)

\* the body of top_coins' try block after the query
TopCoinsResult(rows) ==
  IF rows = <<>> THEN Raise(StatusNotFound)
  ELSE LET coins == NormalizeCoins(rows)
       IN Return([total_market_cap |-> TotalMarketCap(coins),
                  top_10_coins |-> Top10Coins(coins)])

\* mutant of TopCoins: the normalized values are written back to the store
TopCoins_WritesBack ==
  /\ Idle
  /\ \E rows \in TopCoinsAggregate(store) :
       /\ call' = [op |-> "top_coins", args |-> <<>>, backend |-> "ok", rows |-> rows]
       /\ resp' = TopCoinsResult(rows)
  /\ store' = {Doc(d.coin_id, d.date, Num(NormalizeOrZero(d.price)),
                   Num(NormalizeOrZero(d.market_cap)), d.total_volume) : d \in store}
  /\ accum' = NoAcc
  /\ client' = ClientOf(call', resp')
  /\ UNCHANGED <<now, kept, batch>>

\* GET /top-coins
TopCoins ==
  /\ Idle
  /\ \/ \E rows \in TopCoinsAggregate(store) :
          /\ call' = [op |-> "top_coins", args |-> <<>>, backend |-> "ok", rows |-> rows]
          /\ resp' = TopCoinsResult(rows)
     \/ \* collection.aggregate raises
        /\ call' = [op |-> "top_coins", args |-> <<>>, backend |-> "down", rows |-> <<>>]
        /\ resp' = Raise(StatusServerError)
     \/ \* get_mongo_client raises
        /\ call' = [op |-> "top_coins", args |-> <<>>, backend |-> "unreachable", rows |-> <<>>]
        /\ resp' = Unhandled
  /\ accum' = NoAcc
  /\ client' = ClientOf(call', resp')
  /\ UNCHANGED <<store, now, kept, batch>>

\* ------------------------------------------------------ get_top_movers
Abs(x) == IF x < 0 THEN 0 - x ELSE x

RECURSIVE Gcd(_, _)
Gcd(a, b) == IF b = 0 THEN a ELSE Gcd(b, a % b)

\* Exact fractions n/d in lowest terms with d > 0 stand for the unrounded
\* float.
Frac(n, d) ==
  LET g == Gcd(Abs(n), Abs(d))
  IN IF d > 0 THEN [n |-> n \div g, d |-> d \div g]
     ELSE [n |-> 0 - (n \div g), d |-> 0 - (d \div g)]
FracLeq(a, b) == a.n * b.d <= b.n * a.d

\* round(x, 2) in hundredths: to the nearest, an exact tie to the even one
Round2(x) ==
  LET whole == x.n \div x.d
      scaled == (x.n % x.d) * 100
      q == whole * 100 + scaled \div x.d
      r == scaled % x.d
  IN IF 2 * r < x.d THEN q
     ELSE IF 2 * r > x.d THEN q + 1
     ELSE IF q % 2 = 0 THEN q ELSE q + 1

\* {"$match": {"date": {"$gte": start_date, "$lte": end_date}}}
MatchWindow(docs, start, end) == {d \in docs : start <= d.date /\ d.date <= end}

\* mutant of FirstOfDay: the last document of the day is kept
FirstOfDay_Last(docs, c, day) ==
  LET g == {d \in docs : d.coin_id = c /\ DayOf(d.date) = day}
  IN {d \in g : \A e \in g : d.date >= e.date}

\* $sort date ascending, then $first inside a (coin_id, calendar day) group:
\* a document of the group with the smallest date
FirstOfDay(docs, c, day) ==
  LET g == {d \in docs : d.coin_id = c /\ DayOf(d.date) = day}
  IN {d \in g : \A e \in g : d.date <= e.date}

DailyRows(docs, key) ==
  {[symbol |-> d.coin_id, date |-> d.date, price |-> d.price] :
     d \in FirstOfDay(docs, key[1], key[2])}

KeyBefore(a, b) == a[1] < b[1] \/ (a[1] = b[1] /\ a[2] <= b[2])

RECURSIVE KeySeq(_)
\* {"$sort": {"_id.coin_id": 1, "date": 1}}: the groups by coin, then date
KeySeq(K) ==
  IF K = {} THEN <<>>
  ELSE LET m == CHOOSE x \in K : \A y \in K : KeyBefore(x, y)
       IN <<m>> \o KeySeq(K \ {m})

RECURSIVE DailyRowSeqs(_, _)
DailyRowSeqs(docs, keys) ==
  IF keys = <<>> THEN {<<>>}
  ELSE {<<r>> \o rest : r \in DailyRows(docs, Head(keys)),
                        rest \in DailyRowSeqs(docs, Tail(keys))}

MoversStart(t) == t - MoversWindowDays * TicksPerDay

\* list(collection.aggregate(pipeline)) of get_top_movers
MoversAggregate(docs, t) ==
  LET w == MatchWindow(docs, MoversStart(t), t)
  IN DailyRowSeqs(w, KeySeq({<<d.coin_id, DayOf(d.date)>> : d \in w}))

RECURSIVE FirstSeen(_, _)
\* the keys of coin_price_history in insertion order
FirstSeen(rows, seen) ==
  IF rows = <<>> THEN <<>>
  ELSE IF rows[1].symbol \in seen THEN FirstSeen(Tail(rows), seen)
       ELSE <<rows[1].symbol>> \o FirstSeen(Tail(rows), seen \cup {rows[1].symbol})

\* coin_price_history[coin_id]: the coin's points in row order, the date kept
\* as the timestamp that isoformat() prints
PricesOf(rows, c) ==
  LET IsCoin(r) == r.symbol = c
      mine == SelectSeq(rows, IsCoin)
  IN [i \in 1..Len(mine) |->
        [date |-> mine[i].date, price |-> NormalizeOrZero(mine[i].price)]]

MinPoints == 2

\* mutant of HasEnoughPoints: a single point is enough
HasEnoughPoints_One(prices) == Len(prices) >= 1

HasEnoughPoints(prices) == Len(prices) >= MinPoints

\* mutant of PercentageChange: the change relative to the last price
PercentageChange_OverLast(first_price, last_price) ==
  IF last_price # 0
  THEN Frac((last_price - first_price) * 100, last_price)
  ELSE Frac(0, 1)

PercentageChange(first_price, last_price) ==
  IF first_price # 0
  THEN Frac((last_price - first_price) * 100, first_price)
  ELSE Frac(0, 1)

MoverOf(c, prices) ==
  [symbol |-> c,
   percentage_change |-> PercentageChange(prices[1].price, prices[Len(prices)].price),
   price_history |-> prices]

RECURSIVE MoversFrom(_, _)
\* the "Calculate percentage change for each coin" loop
MoversFrom(rows, order) ==
  IF order = <<>> THEN <<>>
  ELSE LET prices == PricesOf(rows, Head(order))
       IN (IF HasEnoughPoints(prices) THEN <<MoverOf(Head(order), prices)>> ELSE <<>>)
          \o MoversFrom(rows, Tail(order))

RECURSIVE InsertMoverDesc(_, _)
InsertMoverDesc(sorted, x) ==
  IF sorted = <<>> THEN <<x>>
  ELSE IF FracLeq(x.percentage_change, sorted[1].percentage_change)
       THEN <<sorted[1]>> \o InsertMoverDesc(Tail(sorted), x)
       ELSE <<x>> \o sorted

RECURSIVE InsertMoverAsc(_, _)
InsertMoverAsc(sorted, x) ==
  IF sorted = <<>> THEN <<x>>
  ELSE IF FracLeq(sorted[1].percentage_change, x.percentage_change)
       THEN <<sorted[1]>> \o InsertMoverAsc(Tail(sorted), x)
       ELSE <<x>> \o sorted

RoundedMover(m) ==
  [m EXCEPT !.percentage_change = Frac(Round2(m.percentage_change), 100)]

RECURSIVE SortMovers_Rounded(_, _)
\* mutant of SortMovers: the change is rounded to 2 decimals before ranking
SortMovers_Rounded(movers, is_gainer) ==
  IF movers = <<>> THEN <<>>
  ELSE LET front == SortMovers_Rounded(SubSeq(movers, 1, Len(movers) - 1), is_gainer)
           x == RoundedMover(movers[Len(movers)])
       IN IF is_gainer THEN InsertMoverDesc(front, x) ELSE InsertMoverAsc(front, x)

RECURSIVE SortMovers(_, _)
\* sorted(movers, key=percentage_change, reverse=is_gainer), a stable sort
SortMovers(movers, is_gainer) ==
  IF movers = <<>> THEN <<>>
  ELSE LET front == SortMovers(SubSeq(movers, 1, Len(movers) - 1), is_gainer)
           x == movers[Len(movers)]
       IN IF is_gainer THEN InsertMoverDesc(front, x) ELSE InsertMoverAsc(front, x)

\* mutant of Top10Movers: the list is cut before it is sorted
Top10Movers_CutFirst(movers, is_gainer) ==
  SortMovers(Take(movers, TopMoversN), is_gainer)

Top10Movers(movers, is_gainer) == Take(SortMovers(movers, is_gainer), TopMoversN)

\* PercentageChangeData(...): the change rounded to 2 decimals
MoverOut(m) ==
  [symbol |-> m.symbol,
   percentage_change |-> Round2(m.percentage_change),
   price_history |-> m.price_history]

\* the body of get_top_movers' try block after the query
TopMoversResult(rows, is_gainer) ==
  IF rows = <<>> THEN Raise(StatusNotFound)
  ELSE LET movers == MoversFrom(rows, FirstSeen(rows, {}))
           top == Top10Movers(movers, is_gainer)
       IN Return([top_movers |-> [i \in 1..Len(top) |-> MoverOut(top[i])]])

get_top_movers(op, is_gainer) ==
  /\ Idle
  /\ \/ \E rows \in MoversAggregate(store, now) :
          /\ call' = [op |-> op, args |-> <<>>, backend |-> "ok", rows |-> rows]
          /\ resp' = TopMoversResult(rows, is_gainer)
     \/ /\ call' = [op |-> op, args |-> <<>>, backend |-> "down", rows |-> <<>>]
        /\ resp' = Raise(StatusServerError)
     \/ \* get_mongo_client raises
        /\ call' = [op |-> op, args |-> <<>>, backend |-> "unreachable", rows |-> <<>>]
        /\ resp' = Unhandled
  /\ accum' = NoAcc
  /\ client' = ClientOf(call', resp')
  /\ UNCHANGED <<store, now, kept, batch>>

\* GET /top-gainers
TopGainers == get_top_movers("top_gainers", TRUE)

\* GET /top-losers
TopLosers == get_top_movers("top_losers", FALSE)

\* --------------------------------------------------------- traded_volume
\* A date parameter is <<>> when omitted, else <<day>> for the YYYY-MM-DD
\* text of that calendar day.
DateParams == {<<>>, <<Today - 2>>, <<Today>>}

\* datetime.strptime(text, "%Y-%m-%d"): midnight of the day
Strptime(param) == Midnight(param[1])

\* mutant of EndDate: a supplied end_date stands for the end of its day
EndDate_EndOfDay(end_date, t) ==
  IF end_date # <<>> THEN Strptime(end_date) + (TicksPerDay - 1) ELSE t

EndDate(end_date, t) == IF end_date # <<>> THEN Strptime(end_date) ELSE t

\* mutant of StartDate: the default start counted back from the clock
StartDate_FromNow(start_date, end) ==
  IF start_date # <<>> THEN Strptime(start_date) ELSE now - VolumeWindowDays * TicksPerDay

StartDate(start_date, end) ==
  IF start_date # <<>> THEN Strptime(start_date) ELSE end - VolumeWindowDays * TicksPerDay

\* $sum adds the numeric values and ignores the others
VolumeOf(value) == IF value.t = "num" THEN value.n ELSE 0

RECURSIVE SumVolume(_)
SumVolume(docs) ==
  IF docs = {} THEN 0
  ELSE LET d == CHOOSE x \in docs : TRUE
       IN VolumeOf(d.total_volume) + SumVolume(docs \ {d})

\* mutant of VolumeAggregate: one observation per coin and day is added,
\* the earliest, as get_top_movers keeps one
VolumeAggregate_OnePerCoinDay(docs, start, end) ==
  LET all == MatchWindow(docs, start, end)
      w == {d \in all : \A e \in all :
              (e.coin_id = d.coin_id /\ DayOf(e.date) = DayOf(d.date)) => d.date <= e.date}
      days == AscSeq({DayOf(d.date) : d \in w})
  IN [i \in 1..Len(days) |->
        [date |-> days[i],
         total_volume |-> SumVolume({d \in w : DayOf(d.date) = days[i]})]]

\* mutant of VolumeAggregate: days whose volume is 0 are left out
VolumeAggregate_SkipsZeroDays(docs, start, end) ==
  LET w == {d \in MatchWindow(docs, start, end) : VolumeOf(d.total_volume) # 0}
      days == AscSeq({DayOf(d.date) : d \in w})
  IN [i \in 1..Len(days) |->
        [date |-> days[i],
         total_volume |-> SumVolume({d \in w : DayOf(d.date) = days[i]})]]

\* list(collection.aggregate(pipeline)) of traded_volume: one row per
\* calendar day of the window, ascending
VolumeAggregate(docs, start, end) ==
  LET w == MatchWindow(docs, start, end)
      days == AscSeq({DayOf(d.date) : d \in w})
  IN [i \in 1..Len(days) |->
        [date |-> days[i],
         total_volume |-> SumVolume({d \in w : DayOf(d.date) = days[i]})]]

TradedVolumeResult(rows) ==
  IF rows = <<>> THEN Raise(StatusNotFound)
  ELSE Return([volume_over_time |-> rows])

\* GET /traded-volume
TradedVolume ==
  /\ Idle
  /\ \E start_date \in DateParams, end_date \in DateParams :
       \/ LET end == EndDate(end_date, now)
              rows == VolumeAggregate(store, StartDate(start_date, end), end)
          IN /\ call' = [op |-> "traded_volume", args |-> <<start_date, end_date>>,
                         backend |-> "ok", rows |-> rows]
             /\ resp' = TradedVolumeResult(rows)
       \/ /\ call' = [op |-> "traded_volume", args |-> <<start_date, end_date>>,
                      backend |-> "down", rows |-> <<>>]
          /\ resp' = Raise(StatusServerError)
       \/ \* get_mongo_client raises
          /\ call' = [op |-> "traded_volume", args |-> <<start_date, end_date>>,
                      backend |-> "unreachable", rows |-> <<>>]
          /\ resp' = Unhandled
  /\ accum' = NoAcc
  /\ client' = ClientOf(call', resp')
  /\ UNCHANGED <<store, now, kept, batch>>

\* ------------------------------------------------------ market_sentiment
\* {"$match": {"date": {"$lte": cutoff}}}
MatchUpTo(docs, cutoff) == {d \in docs : d.date <= cutoff}

\* mutant of SentimentStart: a look-back of one day less
SentimentStart_SixDays(t) == t - (SentimentWindowDays - 1) * TicksPerDay

SentimentStart(t) == t - SentimentWindowDays * TicksPerDay

\* latest_prices / previous_prices: one row per coin seen up to the cutoff
SnapshotAggregate(docs, cutoff) ==
  LET m == MatchUpTo(docs, cutoff)
  IN RowSeqs(m, AscSeq(CoinIds(m)))

\* previous_prices_dict.get(symbol): the row of the coin, <<>> for None
Lookup(rows, symbol) ==
  LET IsCoin(r) == r.symbol = symbol
  IN SelectSeq(rows, IsCoin)

\* mutant of Contribution: an unchanged price counts as advancing
Contribution_EqualAdvances(latest_data, previous_rows) ==
  IF previous_rows = <<>> THEN <<0, 0, 0>>
  ELSE LET last_price == ToFloat(clean_numeric_string(latest_data.last_price))
           previous_price ==
             ToFloat(clean_numeric_string(previous_rows[Len(previous_rows)].last_price))
           market_cap == ToFloat(clean_numeric_string(latest_data.market_cap))
       IN IF ~(last_price.ok /\ previous_price.ok /\ market_cap.ok) THEN <<0, 0, 0>>
          ELSE <<IF last_price.v >= previous_price.v THEN market_cap.v ELSE 0,
                 IF last_price.v < previous_price.v THEN market_cap.v ELSE 0,
                 market_cap.v>>

\* One pass of the accumulation loop: what a coin adds to
\* <<advancing_weighted, declining_weighted, total_market_cap>>.
Contribution(latest_data, previous_rows) ==
  IF previous_rows = <<>> THEN <<0, 0, 0>>
  ELSE LET last_price == ToFloat(clean_numeric_string(latest_data.last_price))
           previous_price ==
             ToFloat(clean_numeric_string(previous_rows[Len(previous_rows)].last_price))
           market_cap == ToFloat(clean_numeric_string(latest_data.market_cap))
       IN IF ~(last_price.ok /\ previous_price.ok /\ market_cap.ok) THEN <<0, 0, 0>>
          ELSE <<IF last_price.v > previous_price.v THEN market_cap.v ELSE 0,
                 IF last_price.v < previous_price.v THEN market_cap.v ELSE 0,
                 market_cap.v>>

RECURSIVE Accumulate(_, _)
Accumulate(latest, previous) ==
  IF latest = <<>> THEN <<0, 0, 0>>
  ELSE LET c == Contribution(latest[1], Lookup(previous, latest[1].symbol))
           rest == Accumulate(Tail(latest), previous)
       IN <<c[1] + rest[1], c[2] + rest[2], c[3] + rest[3]>>

\* mutant of Indicator: no neutral value, 0 when nothing was accumulated
Indicator_ZeroWhenEmpty(advancing_weighted, total_market_cap) ==
  IF total_market_cap = 0 THEN 0
  ELSE Round2(Frac(advancing_weighted * 100, total_market_cap))

\* indicator_value, in hundredths after round(indicator_value, 2)
Indicator(advancing_weighted, total_market_cap) ==
  IF total_market_cap = 0 THEN NeutralIndicator * 100
  ELSE Round2(Frac(advancing_weighted * 100, total_market_cap))

SentimentResult(latest, previous) ==
  LET acc == Accumulate(latest, previous)
  IN Return([bear_vs_bull_indicator |-> Indicator(acc[1], acc[3])])

\* GET /market-sentiment
MarketSentiment ==
  /\ Idle
  /\ \/ \E latest \in SnapshotAggregate(store, now),
           previous \in SnapshotAggregate(store, SentimentStart(now)) :
          /\ call' = [op |-> "market_sentiment", args |-> <<>>, backend |-> "ok",
                      rows |-> <<latest, previous>>]
          /\ resp' = SentimentResult(latest, previous)
     \/ /\ call' = [op |-> "market_sentiment", args |-> <<>>, backend |-> "down",
                   rows |-> <<>>]
        /\ resp' = Raise(StatusServerError)
     \/ \* get_mongo_client raises
        /\ call' = [op |-> "market_sentiment", args |-> <<>>, backend |-> "unreachable", rows |-> <<>>]
        /\ resp' = Unhandled
  /\ accum' = IF call'.backend = "ok" THEN Accumulate(call'.rows[1], call'.rows[2])
               ELSE NoAcc
  /\ client' = ClientOf(call', resp')
  /\ UNCHANGED <<store, now, kept, batch>>

\* fetch_data returns (or stops the page on a status other than 200); the
\* client is free to issue its next request
FetchDataReturns ==
  /\ ~Idle
  /\ call' = NoCall
  /\ resp' = NoResp
  /\ accum' = NoAcc
  /\ client' = NoClient
  /\ UNCHANGED <<store, now, kept, batch>>

Next ==
  \/ TopCoins
  \/ TopGainers
  \/ TopLosers
  \/ TradedVolume
  \/ MarketSentiment
  \/ FetchDataReturns

Spec == Init /\ [][Next]_vars

\* The same program over the stores of single values, windows and dates.
InitDetail ==
  /\ store \in DetailStores
  /\ now \in NowChoices
  /\ call = NoCall
  /\ resp = NoResp
  /\ accum = NoAcc
  /\ client = NoClient
  /\ kept = NoKept
  /\ NoBatch

SpecDetail == InitDetail /\ [][Next]_vars

\* ---------------------------------------------------- successive requests
\* datetime.utcnow() moves on between two requests
Tick ==
  /\ Idle
  /\ now < Midnight(Today) + MaxTicks
  /\ now' = now + 1
  /\ UNCHANGED <<store, call, resp, accum, client, kept, batch>>

\* fetch_data returns and the caller keeps what it got (top_coins_data = ...)
FetchDataKeeps ==
  /\ ~Idle
  /\ kept' = [call |-> call, resp |-> resp, now |-> now]
  /\ call' = NoCall
  /\ resp' = NoResp
  /\ accum' = NoAcc
  /\ client' = NoClient
  /\ UNCHANGED <<store, now, batch>>

NextTwice ==
  \/ TopCoins
  \/ TopGainers
  \/ TopLosers
  \/ TradedVolume
  \/ MarketSentiment
  \/ Tick
  \/ FetchDataKeeps

\* Stores for the claims about successive requests: the empty store, the
\* two-coin scenario, two coins with equal market caps, an advancing and a
\* declining coin seven days apart, and a coin with old observations.
TwiceStores ==
  {{}, StoreOf("up", 1, <<"down">>), StoreOf("up", 2, <<>>),
   StoreOf("text", 1, <<"neg">>), DetailHistory(1, "old")}

InitTwice ==
  /\ store \in TwiceStores
  /\ now = Midnight(Today)
  /\ call = NoCall
  /\ resp = NoResp
  /\ accum = NoAcc
  /\ client = NoClient
  /\ kept = NoKept
  /\ NoBatch

SpecTwice == InitTwice /\ [][NextTwice]_vars

\* =================================================================== claims
Served(op) == call.op = op /\ call.backend = "ok"
Succeeded(op) == Served(op) /\ resp.status = StatusOK
MoversOps == {"top_gainers", "top_losers"}

\* ---------------------------------------------------------------------- C1
\* C1: whenever the store query of top_coins, top-gainers, top-losers or
\* traded_volume returns an empty result set, the request ends in the
\* not-found outcome (404), which differs from the server-error outcome
\* (500) of a backend failure.
C1_EmptyResultIsNotFound ==
  /\ StatusNotFound # StatusServerError
  /\ (call.op \in {"top_coins", "traded_volume"} \cup MoversOps
        /\ call.backend = "ok" /\ call.rows = <<>>)
       => resp.status = StatusNotFound

\* ---------------------------------------------------------------------- C2
\* The end-to-end scenario: coin 1 is A (100 -> 150, cap 1000 -> 1500), coin
\* 2 is B (50 -> 40, cap 500 -> 400), both observed on D-6 and D.
ScenarioStore == StoreOf("up", 1, <<"down">>)

AtScenario(op) == store = ScenarioStore /\ DayOf(now) = Today /\ Served(op)

\* C2 as stated: in the scenario market_sentiment at date D returns 78.95.
C2_ScenarioSentiment7895 ==
  AtScenario("market_sentiment") =>
    resp.status = StatusOK /\ resp.body.bear_vs_bull_indicator = 7895

\* C2 amended: in the scenario market_sentiment at date D returns 50.0,
\* since neither coin has an observation dated D-7 or earlier.
C2_ScenarioSentimentNeutral ==
  AtScenario("market_sentiment") =>
    resp.status = StatusOK /\ resp.body.bear_vs_bull_indicator = 5000

C2_Witness ==
  /\ AtScenario("market_sentiment")
  /\ now = Midnight(Today)
  /\ resp.status = StatusOK

\* ---------------------------------------------------------------------- C3
RECURSIVE SeqSum(_)
SeqSum(ns) == IF ns = <<>> THEN 0 ELSE Head(ns) + SeqSum(Tail(ns))

TopCapSum == SeqSum([i \in 1..Len(resp.body.top_10_coins) |->
                       resp.body.top_10_coins[i].market_cap])

\* every coin's latest observation has a market cap that normalizes to >= 0
LatestCapsNonNegative ==
  \A c \in CoinIds(store) : \A d \in LatestOf(store, c) :
    NormalizeOrZero(d.market_cap) >= 0

\* C3 as stated: for any stored market caps, negative ones included, the
\* market caps of top_10_coins sum to at most total_market_cap.
C3_TopSumAtMostTotal ==
  Succeeded("top_coins") => TopCapSum <= resp.body.total_market_cap

\* C3 amended: when no coin's latest market cap normalizes to a negative
\* number, the market caps of top_10_coins sum to at most total_market_cap.
C3_TopSumAtMostTotalNonNegative ==
  (Succeeded("top_coins") /\ LatestCapsNonNegative) =>
    TopCapSum <= resp.body.total_market_cap

C3_Witness ==
  /\ Succeeded("top_coins")
  /\ LatestCapsNonNegative
  /\ Cardinality(CoinIds(store)) > TopCoinsN
  /\ TopCapSum < resp.body.total_market_cap

\* ---------------------------------------------------------------------- C4
\* C4: for any store contents the bear_vs_bull_indicator returned by
\* market_sentiment lies in [0, 100].
C4_IndicatorInRange ==
  Succeeded("market_sentiment") =>
    0 <= resp.body.bear_vs_bull_indicator /\ resp.body.bear_vs_bull_indicator <= 10000

\* ---------------------------------------------------------------------- C5
\* calendar days of the 7-day window on which the store has the coin
WindowDaysOf(c) ==
  {DayOf(d.date) : d \in {e \in store : e.coin_id = c /\ MoversStart(now) <= e.date
                                         /\ e.date <= now}}

Rankable == {c \in CoinIds(store) : Cardinality(WindowDaysOf(c)) >= 2}

\* C5: top-gainers and top-losers never return a success response whose
\* top_movers list is empty (a window with no coin to rank is to end in the
\* NoData signal instead).
C5_NoEmptyMoversSuccess ==
  (call.op \in MoversOps /\ resp.status = StatusOK) => resp.body.top_movers # <<>>

\* ---------------------------------------------------------------------- C6
RECURSIVE LatestCapSum(_)
\* over a set of coins, the normalized market cap of each coin's latest
\* observation in the store
LatestCapSum(C) ==
  IF C = {} THEN 0
  ELSE LET c == CHOOSE x \in C : TRUE
           d == CHOOSE x \in LatestOf(store, c) : TRUE
       IN NormalizeOrZero(d.market_cap) + LatestCapSum(C \ {c})

\* C6: total_market_cap of top_coins is the sum of the normalized market cap
\* of the latest observation of every distinct coin in the store, the coins
\* outside the returned top 10 included.
C6_TotalIsSumOverAllCoins ==
  Succeeded("top_coins") =>
    resp.body.total_market_cap = LatestCapSum(CoinIds(store))

C6_Witness ==
  /\ Succeeded("top_coins")
  /\ Cardinality(CoinIds(store)) > TopCoinsN
  /\ resp.body.total_market_cap # TopCapSum
  /\ resp.body.total_market_cap = LatestCapSum(CoinIds(store))

\* ---------------------------------------------------------------------- C7
Min(a, b) == IF a < b THEN a ELSE b

\* position of a coin in the snapshot input (the query result)
InputPos(symbol) == CHOOSE i \in 1..Len(call.rows) : call.rows[i].symbol = symbol

\* C7: top_10_coins is the first min(10, distinct coins) elements of the
\* stable descending sort of the snapshots by normalized market cap:
\* that length, each entry the normalized snapshot of a different coin,
\* non-increasing market caps, equal market caps in input order, and every
\* coin left out ranked behind every coin returned.
C7_TopIsStableDescendingPrefix ==
  Succeeded("top_coins") =>
    LET top == resp.body.top_10_coins
        coins == NormalizeCoins(call.rows)
        Behind(x, y) ==
          \/ x.market_cap < y.market_cap
          \/ x.market_cap = y.market_cap /\ InputPos(x.symbol) > InputPos(y.symbol)
    IN /\ Len(top) = Min(TopCoinsN, Cardinality(CoinIds(store)))
       /\ \A i \in 1..Len(top) : top[i] = coins[InputPos(top[i].symbol)]
       /\ \A i, j \in 1..Len(top) : i < j => Behind(top[j], top[i])
       /\ \A k \in 1..Len(coins) :
            (\A i \in 1..Len(top) : top[i].symbol # coins[k].symbol)
              => \A i \in 1..Len(top) : Behind(coins[k], top[i])

C7_Witness ==
  /\ Succeeded("top_coins")
  /\ Len(call.rows) > TopCoinsN
  /\ Len(resp.body.top_10_coins) = TopCoinsN
  /\ \E i, j \in 1..TopCoinsN :
       /\ i < j
       /\ resp.body.top_10_coins[i].market_cap = resp.body.top_10_coins[j].market_cap
       /\ resp.body.top_10_coins[1].market_cap > resp.body.top_10_coins[j].market_cap

\* ---------------------------------------------------------------------- C8
\* C8: no coin with fewer than 2 daily price points inside the 7-day window
\* appears in the output of top-gainers or top-losers.
C8_MoversHaveTwoDailyPoints ==
  (call.op \in MoversOps /\ resp.status = StatusOK) =>
    \A i \in 1..Len(resp.body.top_movers) :
      Cardinality(WindowDaysOf(resp.body.top_movers[i].symbol)) >= 2

C8_Witness ==
  /\ call.op \in MoversOps
  /\ resp.status = StatusOK
  /\ resp.body.top_movers # <<>>
  /\ \E c \in CoinIds(store) :
       /\ Cardinality(WindowDaysOf(c)) = 1
       /\ \A i \in 1..Len(resp.body.top_movers) : resp.body.top_movers[i].symbol # c

\* ---------------------------------------------------------------------- C9
\* the coin's daily point of a calendar day: its earliest observation of
\* that day inside the window
DailyPoint(c, day) ==
  CHOOSE d \in store :
    /\ d.coin_id = c /\ DayOf(d.date) = day
    /\ MoversStart(now) <= d.date /\ d.date <= now
    /\ \A e \in store :
         (e.coin_id = c /\ DayOf(e.date) = day /\ MoversStart(now) <= e.date
            /\ e.date <= now) => d.date <= e.date

FirstDay(c) == CHOOSE x \in WindowDaysOf(c) : \A y \in WindowDaysOf(c) : x <= y
LastDay(c) == CHOOSE x \in WindowDaysOf(c) : \A y \in WindowDaysOf(c) : x >= y
FirstPrice(c) == NormalizeOrZero(DailyPoint(c, FirstDay(c)).price)
LastPrice(c) == NormalizeOrZero(DailyPoint(c, LastDay(c)).price)

\* r, in hundredths, is (last - first) / first * 100 rounded to 2 decimals:
\* no multiple of 0.01 is nearer to the exact quotient
IsRoundedChange(r, first, last) ==
  2 * Abs(r * first - (last - first) * 10000) <= Abs(first)

\* C9: for every coin returned by top-gainers / top-losers, percentage_change
\* is (last - first) / first * 100 rounded to 2 decimals, first and last the
\* normalized prices of the coin's earliest and latest daily point in the
\* window, and it is 0.0 when first is 0.
C9_PercentageChangeFormula ==
  (call.op \in MoversOps /\ resp.status = StatusOK) =>
    \A i \in 1..Len(resp.body.top_movers) :
      LET m == resp.body.top_movers[i]
          first == FirstPrice(m.symbol)
          last == LastPrice(m.symbol)
      IN IF first = 0 THEN m.percentage_change = 0
         ELSE IsRoundedChange(m.percentage_change, first, last)

C9_Witness ==
  /\ call.op \in MoversOps
  /\ resp.status = StatusOK
  /\ \E i, j \in 1..Len(resp.body.top_movers) :
       /\ FirstPrice(resp.body.top_movers[i].symbol) = 0
       /\ LastPrice(resp.body.top_movers[i].symbol) # 0
       /\ resp.body.top_movers[i].percentage_change = 0
       /\ resp.body.top_movers[j].percentage_change = 33

\* --------------------------------------------------------------------- C10
\* the unrounded change of a rankable coin, from the store
ExactChange(c) ==
  IF FirstPrice(c) = 0 THEN Frac(0, 1)
  ELSE Frac((LastPrice(c) - FirstPrice(c)) * 100, FirstPrice(c))

\* a is ranked no later than b
NoWorse(a, b) ==
  IF call.op = "top_gainers" THEN FracLeq(ExactChange(b), ExactChange(a))
  ELSE FracLeq(ExactChange(a), ExactChange(b))

\* C10: top-gainers is ordered by non-increasing and top-losers by
\* non-decreasing percentage change; each holds min(10, rankable coins)
\* entries; every coin left out has a change no better than every coin
\* returned; in the A/B scenario top-gainers ranks A (+50.0) above B.
C10_MoversOrderedAndCut ==
  (call.op \in MoversOps /\ resp.status = StatusOK) =>
    LET top == resp.body.top_movers
        returned == {top[i].symbol : i \in 1..Len(top)}
    IN /\ Len(top) = Min(TopMoversN, Cardinality(Rankable))
       /\ Cardinality(returned) = Len(top)
       /\ returned \subseteq Rankable
       /\ \A i, j \in 1..Len(top) :
            i < j => /\ NoWorse(top[i].symbol, top[j].symbol)
                     /\ IF call.op = "top_gainers"
                        THEN top[i].percentage_change >= top[j].percentage_change
                        ELSE top[i].percentage_change <= top[j].percentage_change
       /\ \A c \in Rankable \ returned : \A i \in 1..Len(top) : NoWorse(top[i].symbol, c)
       /\ (store = ScenarioStore /\ call.op = "top_gainers") =>
            /\ top[1].symbol = 1 /\ top[1].percentage_change = 5000
            /\ top[2].symbol = 2

C10_Witness ==
  /\ call.op = "top_losers"
  /\ resp.status = StatusOK
  /\ Cardinality(Rankable) > TopMoversN
  /\ Len(resp.body.top_movers) = TopMoversN
  /\ resp.body.top_movers[1].percentage_change < resp.body.top_movers[TopMoversN].percentage_change
  /\ \E c \in Rankable :
       /\ \A i \in 1..TopMoversN : resp.body.top_movers[i].symbol # c
       /\ ~NoWorse(c, resp.body.top_movers[TopMoversN].symbol)

\* --------------------------------------------------------------------- C11
\* The observation of coin c that a snapshot as of `cutoff` shows: the one
\* with the greatest date among those dated `cutoff` or earlier.
AsOf(c, cutoff) ==
  {d \in store : /\ d.coin_id = c
                 /\ d.date <= cutoff
                 /\ \A e \in store : (e.coin_id = c /\ e.date <= cutoff) => e.date <= d.date}

InBoth(c) == AsOf(c, now) # {} /\ AsOf(c, now - SentimentWindowDays * TicksPerDay) # {}

LatestDoc(c) == CHOOSE d \in AsOf(c, now) : TRUE
PreviousDoc(c) == CHOOSE d \in AsOf(c, now - SentimentWindowDays * TicksPerDay) : TRUE

Parses(value) == ToFloat(clean_numeric_string(value)).ok
ValueOf(value) == ToFloat(clean_numeric_string(value)).v

\* coins of both snapshots whose two prices and latest market cap parse
Counted ==
  {c \in CoinIds(store) : /\ InBoth(c)
                          /\ Parses(LatestDoc(c).price)
                          /\ Parses(PreviousDoc(c).price)
                          /\ Parses(LatestDoc(c).market_cap)}

RECURSIVE LatestCapOver(_)
LatestCapOver(coins) ==
  IF coins = {} THEN 0
  ELSE LET c == CHOOSE x \in coins : TRUE
       IN ValueOf(LatestDoc(c).market_cap) + LatestCapOver(coins \ {c})

Advancing == {c \in Counted : ValueOf(LatestDoc(c).price) > ValueOf(PreviousDoc(c).price)}
Declining == {c \in Counted : ValueOf(LatestDoc(c).price) < ValueOf(PreviousDoc(c).price)}

\* C11: in market_sentiment a coin of both snapshots whose fields parse adds
\* its latest market cap to total_market_cap always, to advancing_weighted
\* only when its latest price is above the previous one, to
\* declining_weighted only when it is below, to neither when they are equal;
\* a coin of one snapshot only, or with an unparseable price or market cap,
\* adds nothing to any accumulator.
C11_AccumulatorsPerCoin ==
  Served("market_sentiment") =>
    accum = <<LatestCapOver(Advancing), LatestCapOver(Declining), LatestCapOver(Counted)>>

\* an advancing coin next to one whose price did not move: the second is in
\* the total only
C11_Witness ==
  /\ Served("market_sentiment")
  /\ Advancing # {}
  /\ Counted \ (Advancing \cup Declining) # {}
  /\ accum[1] > 0
  /\ accum[2] = 0
  /\ accum[3] > accum[1]

\* --------------------------------------------------------------------- C12
\* C12: market_sentiment returns exactly 50.0, as a successful result,
\* whenever the accumulated total_market_cap is 0 (no coin in both
\* snapshots, or an empty store).
C12_NeutralWhenTotalIsZero ==
  (Served("market_sentiment") /\ LatestCapOver(Counted) = 0) =>
    /\ resp.status = StatusOK
    /\ resp.body.bear_vs_bull_indicator = NeutralIndicator * 100

\* the empty store: a success with 50.0
C12_Witness ==
  /\ Succeeded("market_sentiment")
  /\ store = {}
  /\ accum[3] = 0
  /\ resp.body.bear_vs_bull_indicator = NeutralIndicator * 100

\* --------------------------------------------------------------------- C13
\* the window of the traded_volume request in hand
ReqEnd == IF call.args[2] = <<>> THEN now ELSE Midnight(call.args[2][1])
ReqStart ==
  IF call.args[1] = <<>> THEN ReqEnd - VolumeWindowDays * TicksPerDay
  ELSE Midnight(call.args[1][1])

InWindow == {d \in store : ReqStart <= d.date /\ d.date <= ReqEnd}
WindowDays == {DayOf(d.date) : d \in InWindow}

RECURSIVE NumericVolume(_)
NumericVolume(docs) ==
  IF docs = {} THEN 0
  ELSE LET d == CHOOSE x \in docs : TRUE
       IN (IF d.total_volume.t = "num" THEN d.total_volume.n ELSE 0)
          + NumericVolume(docs \ {d})

Vol3Store == DetailHistory(1, "vol3")

\* C13: traded_volume returns exactly one entry for each calendar day that
\* has an observation with start <= date <= end and no other entry, strictly
\* ascending by date, each total_volume the sum of total_volume over all
\* coins for that day; one coin with volumes 100, 0, 200 over a three-day
\* window gives three entries, the zero day included, summing to 300.
C13_OneEntryPerDay ==
  Succeeded("traded_volume") =>
    LET rows == resp.body.volume_over_time
    IN /\ {rows[i].date : i \in 1..Len(rows)} = WindowDays
       /\ \A i, j \in 1..Len(rows) : i < j => rows[i].date < rows[j].date
       /\ \A i \in 1..Len(rows) :
            rows[i].total_volume =
              NumericVolume({d \in InWindow : DayOf(d.date) = rows[i].date})
       /\ (store = Vol3Store /\ call.args = <<(<<Today - 2>>), (<<Today>>)>>) =>
            /\ Len(rows) = 3
            /\ rows[2].total_volume = 0
            /\ rows[1].total_volume + rows[2].total_volume + rows[3].total_volume = 30000

\* the three-day window over two coins with volumes 100, 0, 200 each
C13_Witness ==
  /\ Succeeded("traded_volume")
  /\ store = Vol3Store \cup DetailHistory(2, "vol3")
  /\ call.args = <<(<<Today - 2>>), (<<Today>>)>>
  /\ Len(resp.body.volume_over_time) = 3
  /\ resp.body.volume_over_time[1].total_volume = 20000
  /\ resp.body.volume_over_time[2].total_volume = 0
  /\ resp.body.volume_over_time[3].total_volume = 40000

\* --------------------------------------------------------------------- C14
Between(lo, hi) == {d \in store : lo <= d.date /\ d.date <= hi}

\* the observations of the window, by which of the two dates were supplied
WindowByCase ==
  LET start_date == call.args[1]
      end_date == call.args[2]
      thirty == VolumeWindowDays * TicksPerDay
  IN CASE start_date = <<>> /\ end_date = <<>> -> Between(now - thirty, now)
       [] start_date = <<>> /\ end_date # <<>> ->
            Between(Midnight(end_date[1]) - thirty, Midnight(end_date[1]))
       [] start_date # <<>> /\ end_date = <<>> -> Between(Midnight(start_date[1]), now)
       [] OTHER -> Between(Midnight(start_date[1]), Midnight(end_date[1]))

\* C14: traded_volume takes the supplied end_date as the end of its window
\* and the current time when it is omitted, the supplied start_date as the
\* start and the resolved end minus 30 days when it is omitted.
C14_WindowBounds ==
  Served("traded_volume") =>
    IF WindowByCase = {} THEN resp.status # StatusOK
    ELSE /\ resp.status = StatusOK
         /\ {resp.body.volume_over_time[i].date :
               i \in 1..Len(resp.body.volume_over_time)}
              = {DayOf(d.date) : d \in WindowByCase}

\* only end_date given, two days back, asked after midnight: the observation
\* of 30 days ago is the only one in the 30 days before that date, and it is
\* outside the 30 days before the clock
C14_Witness ==
  /\ Succeeded("traded_volume")
  /\ call.args = <<(<<>>), (<<Today - 2>>)>>
  /\ now > Midnight(Today)
  /\ store = DetailHistory(1, "old")
  /\ Len(resp.body.volume_over_time) = 1
  /\ resp.body.volume_over_time[1].date = Today - VolumeWindowDays

\* --------------------------------------------------------------------- C15
\* the request in hand repeats the one before it, and the store answered both
Repeated ==
  /\ call.op # "none"
  /\ call.backend = "ok"
  /\ kept.call.op = call.op
  /\ kept.call.args = call.args
  /\ kept.call.backend = "ok"

CapsOf(r) ==
  IF r.status = StatusOK
  THEN [i \in 1..Len(r.body.top_10_coins) |-> r.body.top_10_coins[i].market_cap]
  ELSE <<>>

TotalOf(r) == IF r.status = StatusOK THEN r.body.total_market_cap ELSE 0

ExpectedText(s) ==
  CASE s = <<"1", ",", "2", "3", "4", ".", "5", "6">> -> 123456
    [] s = <<"1", ",", "2", "0", "0", ".", "5", "0">> -> 120050
    [] s = <<"$", "0", ".", "5">> -> 50
    [] s = <<"$", "3">> -> 300
    [] s = <<"4", ".", "0", "0">> -> 400
    [] s = <<"-", "4", "0", "0">> -> 0 - 40000
    [] s = <<>> -> 0
    [] s = <<"1", ".", "2", ".", "3">> -> 0
    [] s = <<"-", "-", "5">> -> 0
    [] s = <<"a", "b", "c">> -> 0
    [] s = <<"n", "/", "a">> -> 0

Expected(value) ==
  CASE value.t = "num" -> value.n
    [] value.t = "null" -> 0
    [] value.t = "str" -> ExpectedText(value.s)

\* the observation of coin c with the greatest date of all
NewestDoc(c) ==
  CHOOSE d \in store : d.coin_id = c /\ \A e \in store : e.coin_id = c => e.date <= d.date

\* C16: the normalization of market_cap and last_price in top_coins and of
\* price in get_top_movers is total: a number comes back unchanged, a text
\* is parsed after every character other than a digit, '.' or '-' is taken
\* out ("1,234.56" is 1234.56), null, empty and unparseable values ("1.2.3",
\* "--5", "") are 0.0, and no value makes the request fail.
C16_NormalizationIsTotal ==
  /\ (Served("top_coins") /\ store # {}) =>
       /\ resp.status = StatusOK
       /\ \A i \in 1..Len(resp.body.top_10_coins) :
            LET coin == resp.body.top_10_coins[i]
            IN /\ coin.market_cap = Expected(NewestDoc(coin.symbol).market_cap)
               /\ coin.last_price = Expected(NewestDoc(coin.symbol).price)
  /\ (call.op \in MoversOps /\ call.backend = "ok" /\ call.rows # <<>>) =>
       /\ resp.status = StatusOK
       /\ \A i \in 1..Len(resp.body.top_movers) :
            LET m == resp.body.top_movers[i]
            IN \A k \in 1..Len(m.price_history) :
                 \E d \in store : /\ d.coin_id = m.symbol
                                  /\ d.date = m.price_history[k].date
                                  /\ m.price_history[k].price = Expected(d.price)

\* "1,234.56" stored as market cap and price: 1234.56 in top_coins
C16_Witness ==
  /\ Succeeded("top_coins")
  /\ store = DetailHistory(1, "raw2")
  /\ resp.body.top_10_coins[1].market_cap = 123456
  /\ resp.body.top_10_coins[1].last_price = 123456

\* --------------------------------------------------------------------- C17
\* C17: top_coins resolves each coin's snapshot as of the time of the call:
\* the values returned for a coin come from its most recent observation
\* dated not later than the call, never from a future-dated observation.
C17_TopCoinsAsOfNow ==
  Succeeded("top_coins") =>
    \A i \in 1..Len(resp.body.top_10_coins) :
      LET coin == resp.body.top_10_coins[i]
      IN /\ AsOf(coin.symbol, now) # {}
         /\ coin.market_cap = Expected(LatestDoc(coin.symbol).market_cap)
         /\ coin.last_price = Expected(LatestDoc(coin.symbol).price)

\* --------------------------------------------------------------------- C18
\* a request is taken up in this step
RequestStep == call.op = "none" /\ call'.op # "none"

C19_ClientClosedOnce ==
  ~Idle =>
    /\ call.backend # "unreachable" => client.acquired = 1
    /\ client.acquired = 1 => client.closed = 1
    /\ client.acquired = 0 => client.closed = 0

\* the no-data branch of top_coins, left with the client closed
C19_Witness ==
  /\ Served("top_coins")
  /\ store = {}
  /\ resp.status # StatusOK
  /\ client = [acquired |-> 1, closed |-> 1]

\* --------------------------------------------------------------------- C20
\* the rows a latest-snapshot query is to give for the cutoff as_of
IsSnapshotAsOf(rows, as_of) ==
  /\ {rows[i].symbol : i \in 1..Len(rows)} = {c \in CoinIds(store) : AsOf(c, as_of) # {}}
  /\ \A i, j \in 1..Len(rows) : rows[i].symbol = rows[j].symbol => i = j
  /\ \A i \in 1..Len(rows) :
       \E d \in AsOf(rows[i].symbol, as_of) :
         rows[i].market_cap = d.market_cap /\ rows[i].last_price = d.price

\* C20 for market_sentiment alone: both of its snapshots
C20_SentimentSnapshots ==
  Served("market_sentiment") =>
    /\ IsSnapshotAsOf(call.rows[1], now)
    /\ IsSnapshotAsOf(call.rows[2], now - SentimentWindowDays * TicksPerDay)

\* C20: the latest-snapshot query of top_coins and market_sentiment yields
\* exactly one entry per distinct coin_id having an observation with
\* date <= as_of, its price and market_cap taken from an observation of the
\* coin with the greatest date among those; other coins yield no entry.
C20_OneEntryPerCoinAsOf ==
  /\ Served("top_coins") => IsSnapshotAsOf(call.rows, now)
  /\ C20_SentimentSnapshots

\* --------------------------------------------------------------------- C21
\* the observations of coin c on calendar day `day` inside the 7-day window
InWindowOn(c, day) ==
  {d \in store : /\ d.coin_id = c
                 /\ DayOf(d.date) = day
                 /\ now - MoversWindowDays * TicksPerDay <= d.date
                 /\ d.date <= now}

\* C21: the price_history of every mover has at most one point per calendar
\* day, is strictly ascending by date and holds only observations with
\* now-7d <= date <= now, both ends included; of several observations of a
\* coin on one calendar day the point kept is the first in date order.
C21_HistoryOnePerDay ==
  (call.op \in MoversOps /\ resp.status = StatusOK) =>
    \A i \in 1..Len(resp.body.top_movers) :
      LET m == resp.body.top_movers[i]
          h == m.price_history
      IN /\ \A k, l \in 1..Len(h) : k < l => DayOf(h[k].date) < DayOf(h[l].date)
         /\ \A k \in 1..Len(h) :
              \E d \in InWindowOn(m.symbol, DayOf(h[k].date)) :
                /\ d.date = h[k].date
                /\ h[k].price = NormalizeOrZero(d.price)
                /\ \A e \in InWindowOn(m.symbol, DayOf(h[k].date)) : d.date <= e.date

\* a mover with two observations on the first day of the window, asked at
\* midnight so that both are inside it: the one of midnight is kept
C21_Witness ==
  /\ call.op \in MoversOps
  /\ resp.status = StatusOK
  /\ now = Midnight(Today)
  /\ store = DetailHistory(1, "edge") \cup DetailHistory(2, "vol3")
  /\ Cardinality(InWindowOn(1, Today - 7)) = 2
  /\ \E i \in 1..Len(resp.body.top_movers) :
       /\ resp.body.top_movers[i].symbol = 1
       /\ resp.body.top_movers[i].price_history[1].date = Midnight(Today - 7)
       /\ resp.body.top_movers[i].price_history[1].price = 100
       /\ Len(resp.body.top_movers[i].price_history) = 2

\* --------------------------------------------------------------------- C22
\* C22: movers are ranked and cut on the unrounded percentage change, which
\* is rounded to 2 decimals only in the response: of two coins whose changes
\* x > y round alike, top-gainers lists the coin of x first and top-losers
\* the coin of y, and a coin left out of the 10 is no better than any
\* returned.
C22_RankedOnUnrounded ==
  (call.op \in MoversOps /\ resp.status = StatusOK) =>
    LET top == resp.body.top_movers
        returned == {top[i].symbol : i \in 1..Len(top)}
    IN /\ \A i, j \in 1..Len(top) :
            (i < j /\ top[i].percentage_change = top[j].percentage_change
               /\ ExactChange(top[i].symbol) # ExactChange(top[j].symbol)) =>
              /\ NoWorse(top[i].symbol, top[j].symbol)
              /\ ~NoWorse(top[j].symbol, top[i].symbol)
       /\ \A c \in Rankable \ returned : \A i \in 1..Len(top) :
            top[i].percentage_change = Round2(ExactChange(c)) => NoWorse(top[i].symbol, c)
       /\ store = FineStore =>
            \A i \in 1..Len(top) :
              /\ top[i].percentage_change = 0
              /\ top[i].symbol = IF call.op = "top_gainers" THEN TopMoversN + 2 - i ELSE i

\* eleven coins whose changes all round to 0.00: top-gainers returns the ten
\* greatest, greatest first, and leaves out the smallest
C22_Witness ==
  /\ call.op = "top_gainers"
  /\ resp.status = StatusOK
  /\ store = FineStore
  /\ Len(resp.body.top_movers) = TopMoversN
  /\ resp.body.top_movers[1].symbol = TopMoversN + 1
  /\ resp.body.top_movers[TopMoversN].symbol = 2
  /\ resp.body.top_movers[1].percentage_change = resp.body.top_movers[TopMoversN].percentage_change

\* --------------------------------------------------------------------- C29
\* the in-window observations of one coin on one calendar day
OfCoinOn(c, day) == {d \in InWindow : d.coin_id = c /\ DayOf(d.date) = day}

RECURSIVE VolumeByCoin(_, _)
\* the day's volume, coin by coin, every observation of the coin counted
VolumeByCoin(coins, day) ==
  IF coins = {} THEN 0
  ELSE LET c == CHOOSE x \in coins : TRUE
       IN NumericVolume(OfCoinOn(c, day)) + VolumeByCoin(coins \ {c}, day)

\* C29: traded_volume does not deduplicate: every in-window observation of a
\* coin on a calendar day is added to that day's total, two observations of
\* one coin on one day both, where get_top_movers keeps one point per coin
\* and day.
C29_VolumeNotDeduplicated ==
  /\ Succeeded("traded_volume") =>
       \A i \in 1..Len(resp.body.volume_over_time) :
         LET row == resp.body.volume_over_time[i]
         IN /\ row.total_volume = VolumeByCoin({d.coin_id : d \in InWindow}, row.date)
            /\ \A d, e \in InWindow :
                 (d # e /\ d.coin_id = e.coin_id /\ DayOf(d.date) = row.date
                    /\ DayOf(e.date) = row.date
                    /\ d.total_volume.t = "num" /\ e.total_volume.t = "num") =>
                   row.total_volume >= d.total_volume.n + e.total_volume.n
  /\ (call.op \in MoversOps /\ resp.status = StatusOK) =>
       \A i \in 1..Len(resp.body.top_movers) :
         LET h == resp.body.top_movers[i].price_history
         IN \A k, l \in 1..Len(h) : k # l => DayOf(h[k].date) # DayOf(h[l].date)

\* one coin observed twice yesterday, volume 1.00 each time: yesterday's
\* total is 2.00
C29_Witness ==
  /\ Succeeded("traded_volume")
  /\ store = DetailHistory(1, "day")
  /\ call.args = <<(<<>>), (<<>>)>>
  /\ Cardinality(OfCoinOn(1, Today - 1)) = 2
  /\ Len(resp.body.volume_over_time) = 1
  /\ resp.body.volume_over_time[1].date = Today - 1
  /\ resp.body.volume_over_time[1].total_volume = 200

\* --------------------------------------------------------------------- C30
\* the row of a calendar day in the response in hand, <<>> when it has none
RowsOf(day) ==
  SelectSeq(resp.body.volume_over_time, LAMBDA row : row.date = day)

\* C30: a supplied end_date is 00:00:00 of its day: an observation later on
\* that day is not counted, and the day has an entry only when some
\* observation is exactly at its midnight; a supplied start_date takes in
\* the whole of its calendar day.
C30_EndDateIsMidnight ==
  Succeeded("traded_volume") =>
    /\ call.args[2] # <<>> =>
         LET day == call.args[2][1]
             atMidnight == {d \in store : d.date = Midnight(day) /\ ReqStart <= d.date}
         IN /\ (RowsOf(day) # <<>>) <=> (atMidnight # {})
            /\ RowsOf(day) # <<>> =>
                 RowsOf(day)[1].total_volume = NumericVolume(atMidnight)
            /\ \A i \in 1..Len(resp.body.volume_over_time) :
                 resp.body.volume_over_time[i].date <= day
    /\ call.args[1] # <<>> =>
         LET day == call.args[1][1]
             whole == {d \in store : DayOf(d.date) = day /\ d.date <= ReqEnd}
         IN /\ (RowsOf(day) # <<>>) <=> (whole # {})
            /\ RowsOf(day) # <<>> => RowsOf(day)[1].total_volume = NumericVolume(whole)

\* start two days back, end today, the coin observed late on both days: the
\* day of start_date is counted, the day of end_date is not
C30_Witness ==
  /\ Succeeded("traded_volume")
  /\ store = DetailHistory(1, "old")
  /\ call.args = <<(<<Today - 2>>), (<<Today>>)>>
  /\ \E d \in store : DayOf(d.date) = Today /\ d.date > Midnight(Today)
  /\ \E d \in store : DayOf(d.date) = Today - 2 /\ d.date > Midnight(Today - 2)
  /\ Len(resp.body.volume_over_time) = 1
  /\ resp.body.volume_over_time[1].date = Today - 2
  /\ resp.body.volume_over_time[1].total_volume = 4

\* ======================================================================
\* The ingestion scripts (src/etl, src/update_coin_prices.py).
\* ======================================================================

\* ------------------------------------------------- the fetch retry loop
MAX_RETRIES == 5
RETRY_DELAY == 5
StatusTooManyRequests == 429

\* fetch_historical_data of fetch_historic_price_data.py and of
\* update_coin_prices.py and fetch_data_for_range run the same loop
FetchFunctions ==
  {"etl.fetch_historical_data", "etl.fetch_data_for_range", "fetch_historical_data"}

\* What one requests.get can come to: a response, <<status>>, or no HTTP
\* response at all (connection error, timeout), <<>>.  The local `response`
\* is <<>> while unbound.
Outcomes == {<<StatusOK>>, <<StatusTooManyRequests>>, <<StatusServerError>>, <<>>}

RECURSIVE Pow2(_)
Pow2(k) == IF k = 0 THEN 1 ELSE 2 * Pow2(k - 1)

\* wait_time = RETRY_DELAY * (2 ** (retries - 1))
WaitTime(retries) == RETRY_DELAY * Pow2(retries - 1)

\* One pass of `while retries < MAX_RETRIES`, the test of the next pass
\* included.  requests.get binds `response` only when it returns; the
\* handler of RequestException reads response.status_code whatever raised.
Attempt(f, outcome) ==
  LET response == IF outcome # <<>> THEN outcome ELSE f.response
      asked == [f EXCEPT !.requests = Append(@, outcome), !.response = response]
  IN IF outcome = <<StatusOK>>
     THEN \* return response.json()
          [asked EXCEPT !.pc = "done", !.result = "data"]
     ELSE IF response = <<>>
     THEN \* UnboundLocalError inside the handler
          [asked EXCEPT !.pc = "done", !.result = "raised"]
     ELSE IF response[1] = StatusTooManyRequests
     THEN LET retries == f.retries + 1
              slept == [asked EXCEPT !.retries = retries,
                                     !.waits = Append(@, WaitTime(retries))]
          IN IF retries < MAX_RETRIES THEN slept
             ELSE [slept EXCEPT !.pc = "done", !.result = "None"]
     ELSE \* break; return None
          [asked EXCEPT !.pc = "done", !.result = "None"]

\* a script calls its fetch function for one coin
FetchCall ==
  /\ fetch.pc = "idle"
  /\ \E fn \in FetchFunctions :
       fetch' = [NoFetch EXCEPT !.pc = "loop", !.fn = fn]
  /\ UNCHANGED <<store, now, call, resp, accum, client, kept, runs, pending, finder>>

FetchAttempt ==
  /\ fetch.pc = "loop"
  /\ \E outcome \in Outcomes : fetch' = Attempt(fetch, outcome)
  /\ UNCHANGED <<store, now, call, resp, accum, client, kept, runs, pending, finder>>

\* the function has returned or raised; the script goes on to its next coin
FetchReturn ==
  /\ fetch.pc = "done"
  /\ fetch' = NoFetch
  /\ UNCHANGED <<store, now, call, resp, accum, client, kept, runs, pending, finder>>

NextFetch ==
  \/ FetchCall
  \/ FetchAttempt
  \/ FetchReturn

InitFetch ==
  /\ store = {}
  /\ now = Midnight(Today)
  /\ call = NoCall
  /\ resp = NoResp
  /\ accum = NoAcc
  /\ client = NoClient
  /\ kept = NoKept
  /\ NoBatch

SpecFetch == InitFetch /\ [][NextFetch]_vars

\* the requests of the call in hand that came back with the given status
Count(status) ==
  Cardinality({i \in 1..Len(fetch.requests) : fetch.requests[i] = <<status>>})

\* the requests that got no response or a status other than 200 and 429
OtherFailures ==
  {i \in 1..Len(fetch.requests) :
     fetch.requests[i] \notin {<<StatusOK>>, <<StatusTooManyRequests>>}}

\* What does hold of every call: at most MAX_RETRIES requests and waits, a
\* success ends the call with its data, an answered request with a status
\* other than 200 and 429 ends it with None, and the k-th wait is
\* RETRY_DELAY * 2^(k-1).
FetchLoopFacts ==
  /\ Len(fetch.requests) <= MAX_RETRIES
  /\ fetch.retries = Len(fetch.waits)
  /\ \A k \in 1..Len(fetch.waits) : fetch.waits[k] = RETRY_DELAY * Pow2(k - 1)
  /\ \A i \in 1..Len(fetch.requests) :
       /\ fetch.requests[i] = <<StatusOK>> =>
            i = Len(fetch.requests) /\ fetch.result = "data"
       /\ fetch.requests[i] = <<StatusServerError>> =>
            i = Len(fetch.requests) /\ fetch.result = "None"
  /\ fetch.result = "data" => fetch.requests[Len(fetch.requests)] = <<StatusOK>>

\* --------------------------------------------------------------------- C25
\* C25: a fetch call ends after at most MAX_RETRIES requests for its coin;
\* it returns the parsed response of the first request that succeeds and
\* None when none succeeded.
C25_FetchReturnsDataOrNone ==
  /\ Len(fetch.requests) <= MAX_RETRIES
  /\ fetch.pc = "loop" => fetch.retries < MAX_RETRIES
  /\ fetch.pc = "done" =>
       IF Count(StatusOK) > 0
       THEN /\ fetch.result = "data"
            /\ fetch.requests[Len(fetch.requests)] = <<StatusOK>>
            /\ Count(StatusOK) = 1
       ELSE fetch.result = "None"

\* --------------------------------------------------------------------- C26
\* C26: a request that fails with anything but HTTP 429, another status or
\* no response at all, first or after earlier 429s, is the last request of
\* the call: it is not counted as a rate-limit hit and the call returns None
\* without raising.
C26_OtherFailureEndsCall ==
  /\ fetch.retries = Count(StatusTooManyRequests)
  /\ \A i \in OtherFailures :
       /\ i = Len(fetch.requests)
       /\ fetch.pc = "done"
       /\ fetch.result = "None"

\* --------------------------------------------------------------------- C27
\* C27: the wait after the k-th consecutive 429 is RETRY_DELAY * 2^(k-1)
\* seconds (5, 10, 20, 40, 80); every 429 is followed by exactly one wait
\* and nothing else is: no wait after a success or another failure.
C27_OneWaitPer429 ==
  /\ Len(fetch.waits) = Count(StatusTooManyRequests)
  /\ \A k \in 1..Len(fetch.waits) : fetch.waits[k] = RETRY_DELAY * Pow2(k - 1)
  /\ \A k \in 1..Len(fetch.waits) : fetch.waits[k] \in {5, 10, 20, 40, 80}

\* ----------------------------------------------- ingestion into "prices"
\* Three scripts write observations: etl/fetch_historic_price_data.py and
\* update_coin_prices.py with insert_many, etl/update_coin_prices.py with
\* update_one(..., upsert=True).  Here a document carries the ObjectId the
\* server gives it on insertion, so that two documents equal in every field
\* of the record are two documents.
Scripts == {"etl.fetch_historic_price_data", "update_coin_prices", "etl.update_coin_prices"}
RunIds == {"first", "second"}
IngestCoins == {1, 2}

\* the calendar days of which CoinGecko has a daily point, at midnight
ApiDays == {Today - SentimentWindowDays - 1, Today - SentimentWindowDays, Today}

\* the timestamps of market_chart between from and to: the daily points and
\* the point of the moment of the call
ChartTimes(from, to) ==
  {t \in {Midnight(d) : d \in ApiDays} \cup {to} : from <= t /\ t <= to}

\* what the API reports of a coin at a timestamp; coin 1 rose to 150.00
\* today, coin 2 fell to 80.00 seven days ago
ApiPrice(c, t) ==
  IF c = 1 THEN (IF DayOf(t) = Today THEN 15000 ELSE 10000)
  ELSE (IF DayOf(t) < Today - SentimentWindowDays THEN 10000 ELSE 8000)

ApiMarketCap(c, t) ==
  IF c = 1 THEN 150000
  ELSE (IF DayOf(t) < Today - SentimentWindowDays THEN 100000 ELSE 200000)

\* process_historical_data keeps the timestamp; process_range_data replaces
\* its time of day by 00:00:00
RecordDate(script, t) ==
  IF script = "etl.update_coin_prices" THEN Midnight(DayOf(t)) ELSE t

\* the records processed from a chart
Records(script, c, times) ==
  {Doc(c, RecordDate(script, t), Num(ApiPrice(c, t)), Num(ApiMarketCap(c, t)), Num(100)) :
     t \in times}

Stored(record, oid) ==
  [oid |-> oid, coin_id |-> record.coin_id, date |-> record.date,
   price |-> record.price, market_cap |-> record.market_cap,
   total_volume |-> record.total_volume]

SameKey(d, record) == d.coin_id = record.coin_id /\ d.date = record.date

RECURSIVE insert_many(_, _)
\* collection.insert_many(records): every record becomes a new document
insert_many(docs, records) ==
  IF records = {} THEN docs
  ELSE LET r == CHOOSE x \in records : \A y \in records : x.date <= y.date
       IN insert_many(docs \cup {Stored(r, Cardinality(docs) + 1)}, records \ {r})

\* collection.update_one({'coin_id': .., 'date': ..}, {'$set': record},
\* upsert=True): the first document of the key takes the record's fields; a
\* new document is inserted when the key has none
update_one(docs, record) ==
  LET matching == {d \in docs : SameKey(d, record)}
  IN IF matching = {} THEN docs \cup {Stored(record, Cardinality(docs) + 1)}
     ELSE LET d == CHOOSE x \in matching : \A y \in matching : x.oid <= y.oid
          IN (docs \ {d}) \cup {Stored(record, d.oid)}

LatestDate(docs, c) ==
  CHOOSE t \in {d.date : d \in {e \in docs : e.coin_id = c}} :
    \A d \in docs : d.coin_id = c => d.date <= t

OldestDate(docs, c) ==
  CHOOSE t \in {d.date : d \in {e \in docs : e.coin_id = c}} :
    \A d \in docs : d.coin_id = c => t <= d.date

\* coins_info[0] of get_coins_sorted_by_market_cap: a coin whose latest
\* market cap is the greatest
ReferenceCoins(docs) ==
  {c \in CoinIds(docs) :
     \E d \in LatestOf(docs, c) :
       \A c2 \in CoinIds(docs) : \E e \in LatestOf(docs, c2) :
         e.market_cap.n <= d.market_cap.n}

ThirtyDaysAgo(t) == t - VolumeWindowDays * TicksPerDay

\* Where a script starts fetching for a coin, <<from>>, or <<>> when it
\* leaves the coin out.  mongo_ok: the script's read of the collection
\* succeeded; check_if_data_exists answers False and get_last_update_date
\* None when it did not.
FetchFrom(script, docs, c, t, mongo_ok) ==
  CASE script = "etl.fetch_historic_price_data" ->
         IF mongo_ok /\ c \in CoinIds(docs) THEN <<>> ELSE <<ThirtyDaysAgo(t)>>
    [] script = "update_coin_prices" ->
         IF mongo_ok /\ c \in CoinIds(docs) THEN <<LatestDate(docs, c) + TicksPerDay>>
         ELSE <<ThirtyDaysAgo(t)>>
    [] OTHER ->
         IF ~mongo_ok \/ c \notin CoinIds(docs) THEN <<>>
         ELSE IF \A ref \in ReferenceCoins(docs) :
                   c # ref /\ LatestDate(docs, c) < OldestDate(docs, ref)
         THEN <<>>
         ELSE <<LatestDate(docs, c)>>

IdleRun == [pc |-> "idle", script |-> "none", coin |-> 0, records |-> {}]

\* A script comes to a coin of its loop: it reads what the collection holds
\* of the coin, fetches and processes.  The fetch may return None.
RunFetch(r) ==
  /\ runs[r].pc = "idle"
  /\ \E script \in Scripts, c \in IngestCoins, mongo_ok \in BOOLEAN, fetched \in BOOLEAN :
       LET from == FetchFrom(script, store, c, now, mongo_ok)
           records == IF from = <<>> \/ ~fetched THEN {}
                      ELSE Records(script, c, ChartTimes(from[1], now))
       IN runs' = [runs EXCEPT ![r] =
                     [pc |-> IF records = {} THEN "done" ELSE "insert",
                      script |-> script, coin |-> c, records |-> records]]
  /\ UNCHANGED <<store, now, call, resp, accum, client, kept, fetch, pending, finder>>

\* insert_data_into_db of fetch_historic_price_data.py and of
\* update_coin_prices.py
RunInsertMany(r) ==
  /\ runs[r].pc = "insert"
  /\ runs[r].script # "etl.update_coin_prices"
  /\ store' = insert_many(store, runs[r].records)
  /\ runs' = [runs EXCEPT ![r].pc = "done", ![r].records = {}]
  /\ UNCHANGED <<now, call, resp, accum, client, kept, fetch, pending, finder>>

\* one pass of the loop of insert_data of etl/update_coin_prices.py
RunUpsert(r) ==
  /\ runs[r].pc = "insert"
  /\ runs[r].script = "etl.update_coin_prices"
  /\ \E record \in runs[r].records :
       /\ store' = update_one(store, record)
       /\ runs' = [runs EXCEPT ![r].records = @ \ {record},
                               ![r].pc = IF runs[r].records = {record} THEN "done"
                                         ELSE "insert"]
  /\ UNCHANGED <<now, call, resp, accum, client, kept, fetch, pending, finder>>

\* ---------------------------------- market_sentiment, query by query
\* mutant of SecondQueryReads: both queries read one snapshot
SecondQueryReads_Snapshot(first, current) == first

\* what previous_prices_pipeline is evaluated on, given the collection as
\* latest_prices_pipeline read it and as it is now
SecondQueryReads(first, current) == current

\* latest_prices = list(collection.aggregate(latest_prices_pipeline))
SentimentFirstQuery ==
  /\ Idle
  /\ pending = NoPending
  /\ \E latest \in SnapshotAggregate(store, now) :
       pending' = <<latest, store>>
  /\ UNCHANGED <<store, now, call, resp, accum, client, kept, fetch, runs, finder>>

\* previous_prices = list(collection.aggregate(previous_prices_pipeline)),
\* the loop and the response
SentimentSecondQuery ==
  /\ Len(pending) = 2
  /\ \E previous \in SnapshotAggregate(SecondQueryReads(pending[2], store),
                                       SentimentStart(now)) :
       /\ call' = [op |-> "market_sentiment", args |-> <<>>, backend |-> "ok",
                   rows |-> <<pending[1], previous>>]
       /\ resp' = SentimentResult(pending[1], previous)
  /\ accum' = Accumulate(call'.rows[1], call'.rows[2])
  /\ client' = ClientOf(call', resp')
  /\ pending' = <<pending[1], pending[2], store>>
  /\ UNCHANGED <<store, now, kept, fetch, runs, finder>>

\* fetch_data returns the indicator to the dashboard
SentimentReturns ==
  /\ Len(pending) = 3
  /\ call' = NoCall
  /\ resp' = NoResp
  /\ accum' = NoAcc
  /\ client' = NoClient
  /\ pending' = NoPending
  /\ UNCHANGED <<store, now, kept, fetch, runs, finder>>

NextIngest ==
  \/ \E r \in RunIds : RunFetch(r)
  \/ \E r \in RunIds : RunInsertMany(r)
  \/ \E r \in RunIds : RunUpsert(r)
  \/ SentimentFirstQuery
  \/ SentimentSecondQuery
  \/ SentimentReturns

\* The collections ingestion starts from: empty, and coin 1 observed eight
\* days ago and today with coin 2 observed eight days ago only.
IngestStores ==
  {{},
   insert_many({}, Records("etl.update_coin_prices", 1,
                           {Midnight(Today - SentimentWindowDays - 1), Midnight(Today)})
                     \cup Records("etl.update_coin_prices", 2,
                                  {Midnight(Today - SentimentWindowDays - 1)}))}

InitIngest ==
  /\ store \in IngestStores
  /\ now \in NowChoices
  /\ call = NoCall
  /\ resp = NoResp
  /\ accum = NoAcc
  /\ client = NoClient
  /\ kept = NoKept
  /\ fetch = NoFetch
  /\ runs = [r \in RunIds |-> IdleRun]
  /\ pending = NoPending
  /\ finder = NoFinder

SpecIngest == InitIngest /\ [][NextIngest]_vars

\* --------------------------------------------------------------------- C24
OnePerKey(docs) ==
  \A d, e \in docs : (d.coin_id = e.coin_id /\ d.date = e.date) => d = e

\* C24: every ingestion write is an upsert keyed by (coin_id, date): from a
\* collection with at most one observation per (coin_id, date), any sequence
\* or interleaving of ingestion runs leaves at most one per (coin_id, date).
C24_OneObservationPerKey == OnePerKey(store)

\* what does hold: a pass of insert_data of etl/update_coin_prices.py never
\* adds a second observation to a key
UpsertKeepsOnePerKey ==
  [][(\E r \in RunIds : RunUpsert(r)) => (OnePerKey(store) => OnePerKey(store'))]_vars

\* --------------------------------------------------------------------- C23
\* the indicators market_sentiment can return when both its queries read docs
IndicatorsOn(docs) ==
  {Indicator(Accumulate(latest, previous)[1], Accumulate(latest, previous)[3]) :
     latest \in SnapshotAggregate(docs, now),
     previous \in SnapshotAggregate(docs, SentimentStart(now))}

\* C23: market_sentiment reads the collection in two separate queries with
\* no snapshot between them: the latest rows are those of the collection at
\* the first query, the previous rows those of the collection at the second,
\* whatever ingestion wrote in between, and the indicator is computed from
\* that pair.
C23_TwoQueriesNoSnapshot ==
  Len(pending) = 3 =>
    /\ call.rows[1] \in SnapshotAggregate(pending[2], now)
    /\ call.rows[2] \in SnapshotAggregate(pending[3], SentimentStart(now))
    /\ resp = SentimentResult(call.rows[1], call.rows[2])

\* an upsert of coin 2 committed between the two queries: the indicator is
\* 100.00, where the collection before gives 60.00 and the collection after
\* gives 42.86
C23_Witness ==
  /\ Len(pending) = 3
  /\ OnePerKey(pending[2])
  /\ \E record \in Records("etl.update_coin_prices", 2, {Midnight(Today - SentimentWindowDays)}) :
       pending[3] = update_one(pending[2], record)
  /\ IndicatorsOn(pending[2]) = {6000}
  /\ IndicatorsOn(pending[3]) = {4286}
  /\ resp.body.bear_vs_bull_indicator = 10000

\* ------------------------------------------------------- find_new_coins
\* etl/find_new_coins.py and find_new_coins.py: the coins of the listing
\* that the cache file does not hold are written to the cache, then examined
\* one by one.
FinderCoins == {1, 2, 3}
FinderScripts == {"etl.find_new_coins", "find_new_coins"}

\* What examining a coin comes to: fetch_coin_details returned None; the
\* coin is no meme coin; insert_one raised; the coin was stored without
\* price data (no market data, or the upsert raised); it was stored with
\* its price.
DetailOutcomes == {"no_details", "not_meme", "insert_failed", "stored", "stored_priced"}

\* mutant of NewCoins: the cache is not consulted
NewCoins_All(all_coins, cached_coin_ids) == all_coins

\* new_coins = [coin for coin in all_coins if coin['id'] not in cached_coin_ids]
NewCoins(all_coins, cached_coin_ids) == all_coins \ cached_coin_ids

\* the record store_price_data writes: the current market data at 00:00:00
\* of the current day
PriceRecord(c) == Doc(c, Midnight(DayOf(now)), Num(100), Num(1000), Num(100))

\* main up to its loop: load_cache, fetch_all_coins ([] when the request
\* failed), save_cache(cached_coins + new_coins), get_mongo_client
FinderMain ==
  /\ finder.pc = "idle"
  /\ finder.run < MaxFinderRuns
  /\ \E script \in FinderScripts, all_coins \in SUBSET FinderCoins, mongo \in BOOLEAN :
       LET new_coins == NewCoins(all_coins, finder.cache)
           started == [finder EXCEPT !.run = @ + 1, !.listed = all_coins]
       IN finder' =
            IF all_coins = {} \/ new_coins = {} THEN started
            ELSE IF ~mongo /\ script = "etl.find_new_coins"
            THEN [started EXCEPT !.cache = @ \cup new_coins]
            ELSE [started EXCEPT !.cache = @ \cup new_coins, !.pc = "loop",
                                 !.client = mongo, !.todo = AscSeq(new_coins)]
  /\ UNCHANGED <<store, now, call, resp, accum, client, kept, fetch, runs, pending>>

\* one pass of `for coin in new_coins`
FinderExamine ==
  /\ finder.pc = "loop"
  /\ \E outcome \in DetailOutcomes :
       LET c == Head(finder.todo)
           rest == Tail(finder.todo)
       IN /\ outcome \in {"insert_failed", "stored", "stored_priced"} => finder.client
          /\ finder' = [finder EXCEPT
                          !.examined = @ \cup {[run |-> finder.run, coin |-> c,
                                                outcome |-> outcome]},
                          !.memecoins = IF outcome \in {"stored", "stored_priced"}
                                        THEN @ \cup {c} ELSE @,
                          !.todo = rest,
                          !.pc = IF rest = <<>> THEN "idle" ELSE "loop"]
          /\ store' = IF outcome = "stored_priced" THEN update_one(store, PriceRecord(c))
                      ELSE store
  /\ UNCHANGED <<now, call, resp, accum, client, kept, fetch, runs, pending>>

\* the process is stopped inside its loop
FinderKilled ==
  /\ finder.pc = "loop"
  /\ finder' = [finder EXCEPT !.pc = "idle", !.todo = <<>>]
  /\ UNCHANGED <<store, now, call, resp, accum, client, kept, fetch, runs, pending>>

NextFinder ==
  \/ FinderMain
  \/ FinderExamine
  \/ FinderKilled

InitFinder ==
  /\ store = {}
  /\ now \in NowChoices
  /\ call = NoCall
  /\ resp = NoResp
  /\ accum = NoAcc
  /\ client = NoClient
  /\ kept = NoKept
  /\ NoBatch

SpecFinder == InitFinder /\ [][NextFinder]_vars

\* --------------------------------------------------------------------- C28
\* C28: main writes every newly listed coin into the cache before it fetches
\* any details; the cache only grows; over any sequence of runs the details
\* of a coin id are fetched in at most one run, so a coin whose detail fetch
\* or insert failed, or whose run was cut short, is not examined again.
C28_ExaminedInOneRunOnly ==
  /\ [][finder.cache \subseteq finder'.cache]_vars
  /\ [](\A i \in 1..Len(finder.todo) : finder.todo[i] \in finder.cache)
  /\ [](\A x \in finder.examined : x.coin \in finder.cache)
  /\ [](\A x, y \in finder.examined : x.coin = y.coin => x.run = y.run)

\* the details of a coin could not be fetched in one run; the next run
\* lists the coin again, examines another coin, and leaves this one alone
C28_Witness ==
  /\ finder.pc = "idle"
  /\ \E x, y \in finder.examined :
       /\ x.outcome = "no_details"
       /\ x.coin \in finder.listed
       /\ x.coin \notin finder.memecoins
       /\ y.run = finder.run
       /\ x.run < y.run
       /\ \A z \in finder.examined : z.coin = x.coin => z = x

====
